---- MODULE Spec2Model ----
(***************************************************************************)
(* Model of packages/workspace/src/node/default-workspace-server.ts:       *)
(* WorkspaceCliContribution (the CLI capture) and DefaultWorkspaceServer   *)
(* (initial resolution of the workspace root, getRoot, setRoot and the     *)
(* read and write of <home>/.theia/recentworkspace.json).                  *)
(*                                                                         *)
(* A JavaScript string is a sequence of characters; a character is a TLA+  *)
(* string.  A JavaScript value is a record [k, s, items, fields] of one    *)
(* shape, so that any two values can be compared.  The text of the file is *)
(* a sequence of lexical tokens, each a record [t, v].                     *)
(***************************************************************************)
EXTENDS Naturals, Sequences, FiniteSets

\* ------------------------------------------------------------ bounds
\* setRoot calls made in one process.
MaxSetRoot == 2
\* getRoot calls whose promise is still held by a caller.
MaxGetRoot == 1

\* ------------------------------------------------------------ JavaScript values
JUndef == [k |-> "undefined", s |-> <<>>, items |-> <<>>, fields |-> <<>>]
JNull == [k |-> "null", s |-> <<>>, items |-> <<>>, fields |-> <<>>]
JTrue == [k |-> "bool", s |-> <<"true">>, items |-> <<>>, fields |-> <<>>]
JFalse == [k |-> "bool", s |-> <<"false">>, items |-> <<>>, fields |-> <<>>]
JNum(digits) == [k |-> "num", s |-> digits, items |-> <<>>, fields |-> <<>>]
JStr(chars) == [k |-> "str", s |-> chars, items |-> <<>>, fields |-> <<>>]
JArr(vals) == [k |-> "arr", s |-> <<>>, items |-> vals, fields |-> <<>>]
\* An object: its members in insertion order, each <<key, value>>.
JObj(members) == [k |-> "obj", s |-> <<>>, items |-> <<>>, fields |-> members]

\* ToBoolean, as `!x`, `a && b` and `if (x)` apply it.
Truthy(v) ==
  CASE v.k = "undefined" -> FALSE
    [] v.k = "null" -> FALSE
    [] v.k = "bool" -> v = JTrue
    [] v.k = "num" -> v.s /= <<"0">>
    [] v.k = "str" -> v.s /= <<>>
    [] OTHER -> TRUE

RECURSIVE Lookup(_, _, _)
\* The value of the last member named key among the first n members.
Lookup(members, key, n) ==
  IF n = 0 THEN JUndef
  ELSE IF members[n][1] = key THEN members[n][2]
  ELSE Lookup(members, key, n - 1)

\* v.key for a value that is neither null nor undefined: a primitive or an
\* array has no such own property.
GetProp(v, key) ==
  IF v.k = "obj" THEN Lookup(v.fields, key, Len(v.fields)) ELSE JUndef

\* Index0 taking the last element of an array instead of the first.
IndexLast(v) ==
  CASE v.k = "arr" -> IF Len(v.items) > 0 THEN v.items[Len(v.items)] ELSE JUndef
    [] v.k = "str" -> IF Len(v.s) > 0 THEN JStr(<<v.s[Len(v.s)]>>) ELSE JUndef
    [] OTHER -> JUndef

\* v[0]: the first element of an array, the first character of a string,
\* the member "0" of an object.
Index0(v) ==
  CASE v.k = "arr" -> IF Len(v.items) > 0 THEN v.items[1] ELSE JUndef
    [] v.k = "str" -> IF Len(v.s) > 0 THEN JStr(<<v.s[1]>>) ELSE JUndef
    [] OTHER -> GetProp(v, <<"0">>)

\* ------------------------------------------------------------ JSON text
Punct(c) == [t |-> "p", v |-> <<c>>]
Lit(word) == [t |-> "l", v |-> <<word>>]
NumTok(digits) == [t |-> "n", v |-> digits]
StrTok(chars) == [t |-> "s", v |-> chars]
Space == [t |-> "w", v |-> <<" ">>]
Newline == [t |-> "w", v |-> <<"\n">>]

RECURSIVE Stringify(_)
RECURSIVE StringifyItems(_, _)
RECURSIVE StringifyMembers(_, _, _)
\* JSON.stringify of a value: no white space; undefined in an array is
\* written as null and a member whose value is undefined is left out.
Stringify(v) ==
  CASE v.k = "undefined" -> <<Lit("null")>>
    [] v.k = "null" -> <<Lit("null")>>
    [] v.k = "bool" -> <<Lit(v.s[1])>>
    [] v.k = "num" -> <<NumTok(v.s)>>
    [] v.k = "str" -> <<StrTok(v.s)>>
    [] v.k = "arr" -> <<Punct("[")>> \o StringifyItems(v.items, 1) \o <<Punct("]")>>
    [] v.k = "obj" -> <<Punct("{")>> \o StringifyMembers(v.fields, 1, TRUE) \o <<Punct("}")>>

StringifyItems(vals, i) ==
  IF i > Len(vals) THEN <<>>
  ELSE (IF i > 1 THEN <<Punct(",")>> ELSE <<>>)
       \o Stringify(vals[i]) \o StringifyItems(vals, i + 1)

StringifyMembers(members, i, first) ==
  IF i > Len(members) THEN <<>>
  ELSE IF members[i][2].k = "undefined" THEN StringifyMembers(members, i + 1, first)
  ELSE (IF first THEN <<>> ELSE <<Punct(",")>>)
       \o <<StrTok(members[i][1]), Punct(":")>> \o Stringify(members[i][2])
       \o StringifyMembers(members, i + 1, FALSE)

RECURSIVE SkipWs(_, _)
\* The first position from i on that holds no white space.
SkipWs(ts, i) ==
  IF i <= Len(ts) /\ ts[i].t = "w" THEN SkipWs(ts, i + 1) ELSE i

RECURSIVE TrimEnd(_)
TrimEnd(ts) ==
  IF Len(ts) > 0 /\ ts[Len(ts)].t = "w" THEN TrimEnd(SubSeq(ts, 1, Len(ts) - 1)) ELSE ts

\* Trim that leaves the text as it is.
TrimNothing(ts) == ts

\* String.prototype.trim.
Trim(ts) == TrimEnd(SubSeq(ts, SkipWs(ts, 1), Len(ts)))

ParseFail == [ok |-> FALSE, val |-> JUndef, next |-> 0]
ParseOk(v, n) == [ok |-> TRUE, val |-> v, next |-> n]
IsPunct(ts, i, c) == i <= Len(ts) /\ ts[i] = Punct(c)

RECURSIVE ParseValue(_, _)
RECURSIVE ParseElements(_, _, _)
RECURSIVE ParseMembers(_, _, _)
\* One JSON value starting at position i (white space skipped).
ParseValue(ts, i) ==
  LET j == SkipWs(ts, i) IN
  IF j > Len(ts) THEN ParseFail
  ELSE CASE ts[j].t = "l" ->
              (CASE ts[j].v = <<"null">> -> ParseOk(JNull, j + 1)
                 [] ts[j].v = <<"true">> -> ParseOk(JTrue, j + 1)
                 [] ts[j].v = <<"false">> -> ParseOk(JFalse, j + 1)
                 [] OTHER -> ParseFail)
         [] ts[j].t = "n" -> ParseOk(JNum(ts[j].v), j + 1)
         [] ts[j].t = "s" -> ParseOk(JStr(ts[j].v), j + 1)
         [] ts[j] = Punct("[") ->
              (IF IsPunct(ts, SkipWs(ts, j + 1), "]")
               THEN ParseOk(JArr(<<>>), SkipWs(ts, j + 1) + 1)
               ELSE ParseElements(ts, j + 1, <<>>))
         [] ts[j] = Punct("{") ->
              (IF IsPunct(ts, SkipWs(ts, j + 1), "}")
               THEN ParseOk(JObj(<<>>), SkipWs(ts, j + 1) + 1)
               ELSE ParseMembers(ts, j + 1, <<>>))
         [] OTHER -> ParseFail

\* value ("," value)* "]" from position i, after the elements in acc.
ParseElements(ts, i, acc) ==
  LET r == ParseValue(ts, i) IN
  IF ~r.ok THEN ParseFail
  ELSE LET j == SkipWs(ts, r.next) IN
       IF IsPunct(ts, j, ",") THEN ParseElements(ts, j + 1, Append(acc, r.val))
       ELSE IF IsPunct(ts, j, "]") THEN ParseOk(JArr(Append(acc, r.val)), j + 1)
       ELSE ParseFail

\* string ":" value ("," string ":" value)* "}" from position i.
ParseMembers(ts, i, acc) ==
  LET j == SkipWs(ts, i) IN
  IF j > Len(ts) \/ ts[j].t /= "s" THEN ParseFail
  ELSE LET c == SkipWs(ts, j + 1) IN
       IF ~IsPunct(ts, c, ":") THEN ParseFail
       ELSE LET r == ParseValue(ts, c + 1) IN
            IF ~r.ok THEN ParseFail
            ELSE LET e == SkipWs(ts, r.next)
                     m == Append(acc, <<ts[j].v, r.val>>) IN
                 IF IsPunct(ts, e, ",") THEN ParseMembers(ts, e + 1, m)
                 ELSE IF IsPunct(ts, e, "}") THEN ParseOk(JObj(m), e + 1)
                 ELSE ParseFail

\* JSON.parse: [ok, val]; ok is FALSE where JSON.parse throws a SyntaxError.
JsonParse(ts) ==
  LET r == ParseValue(ts, 1) IN
  IF r.ok /\ SkipWs(ts, r.next) > Len(ts) THEN [ok |-> TRUE, val |-> r.val]
  ELSE [ok |-> FALSE, val |-> JUndef]

\* fs-extra writeJson: the text of JSON.stringify followed by a line break.
JsonText(v) == Stringify(v) \o <<Newline>>

\* ------------------------------------------------------------ paths and URIs
Sep == "/"
\* process.cwd()
Cwd == <<Sep, "w">>

\* path.isAbsolute (posix).
IsAbsolute(p) == Len(p) > 0 /\ p[1] = Sep

RECURSIVE Segments(_, _, _)
\* The names of p from position i on, "." dropped and ".." resolved against
\* the names in acc (at the root ".." stays at the root).
Segments(p, i, acc) ==
  IF i > Len(p) THEN acc
  ELSE IF p[i] = Sep \/ p[i] = "." THEN Segments(p, i + 1, acc)
  ELSE IF p[i] = ".."
       THEN Segments(p, i + 1, IF acc = <<>> THEN acc ELSE SubSeq(acc, 1, Len(acc) - 1))
  ELSE Segments(p, i + 1, Append(acc, p[i]))

RECURSIVE Rooted(_, _)
Rooted(names, i) ==
  IF i > Len(names) THEN <<>> ELSE <<Sep, names[i]>> \o Rooted(names, i + 1)

\* path.join(a, b) for an absolute a: path.normalize of a, "/" and b; a
\* trailing separator of b is kept.
PathJoin(a, b) ==
  LET names == Segments(a \o <<Sep>> \o b, 1, <<>>) IN
  IF names = <<>> THEN <<Sep>>
  ELSE Rooted(names, 1) \o (IF Len(b) > 0 /\ b[Len(b)] = Sep THEN <<Sep>> ELSE <<>>)

\* FileUri.create(fsPath).toString(): the file URI of a path.
FileUri(fsPath) == <<"file://">> \o fsPath

\* ------------------------------------------------------------ inputs
AbsPath == <<Sep, "a">>
RelPath == <<"r">>
OptPath == <<Sep, "d">>
\* yargs arguments: pos is args._[2], rootDir is args['root-dir'].
ArgsSet ==
  {[pos |-> JUndef, rootDir |-> JUndef],
   [pos |-> JStr(AbsPath), rootDir |-> JUndef],
   [pos |-> JStr(RelPath), rootDir |-> JUndef],
   [pos |-> JUndef, rootDir |-> JStr(OptPath)],
   [pos |-> JStr(AbsPath), rootDir |-> JStr(OptPath)]}

PathX == <<Sep, "x">>
UriY == <<"file://", Sep, "y">>
Uri1 == <<"file://", Sep, "u">>
Uri2 == <<"file://", Sep, "v">>
\* The arguments of setRoot.
Uris == {Uri1, Uri2}

RecentRootsKey == <<"recentRoots">>
\* The WorkspaceData literal of setRoot and of a well-formed file.
WorkspaceData(roots) ==
  JObj(<< <<RecentRootsKey, JArr([i \in 1..Len(roots) |-> JStr(roots[i])])>> >>)

\* The recentRoots lists of a well-formed file the process may start with.
RootLists ==
  {<<>>, <<PathX>>, <<UriY>>, <<PathX, UriY>>, <<UriY, PathX>>, <<UriY, UriY, PathX>>}

BlankTexts == {<<>>, <<Space, Newline>>}
MalformedTexts ==
  {<<Punct("{")>>, <<Space, Punct("{"), StrTok(RecentRootsKey), Punct(":"), Newline>>}
NoFieldValues ==
  {JNull, JNum(<<"5">>), JStr(<<"x">>), JTrue, JArr(<<JStr(PathX)>>), JObj(<<>>),
   JObj(<< <<<<"other">>, JArr(<<JStr(PathX)>>)>> >>)}
OddFieldValues ==
  {JObj(<< <<RecentRootsKey, JNull>> >>), JObj(<< <<RecentRootsKey, JStr(PathX)>> >>)}
\* The texts the file may hold when the process starts.
StartTexts ==
  BlankTexts \cup MalformedTexts
  \cup {JsonText(v) : v \in NoFieldValues \cup OddFieldValues}
  \cup {JsonText(WorkspaceData(l)) : l \in RootLists}

\* ------------------------------------------------------------ state
VARIABLES
  args,       \* the process's command line, as yargs parsed it
  cliRoot,    \* WorkspaceCliContribution.workspaceRoot: a Deferred
  deferreds,  \* every Deferred the server has created for its root
  root,       \* DefaultWorkspaceServer.root: the index of a Deferred
  initPc,     \* where init() stands
  writes,     \* the writeToUserHome calls, in the order setRoot made them
  getCalls,   \* the promises getRoot has handed out
  prompt,     \* the parse-error warning of messageService
  dir,        \* <home>/.theia exists
  file,       \* <<>>: no recentworkspace.json; <<text>>: its text
  writable,   \* the file system lets this user create and change files
  file0,      \* the file when the process started
  dir0,       \* whether <home>/.theia existed when the process started
  earlier     \* <<>> in a first process; in its successor, what it left

vars ==
  <<args, cliRoot, deferreds, root, initPc, writes, getCalls, prompt, dir, file,
    writable, file0, dir0, earlier>>

Pending == [resolved |-> FALSE, value |-> JUndef]
Resolved(v) == [resolved |-> TRUE, value |-> v]
\* Resolve replacing the value of a settled promise.
ResolveOverwrite(d, v) == Resolved(v)
\* Deferred.resolve: settling a settled promise changes nothing.
Resolve(d, v) == IF d.resolved THEN d ELSE Resolved(v)

Init ==
  /\ args \in ArgsSet
  /\ cliRoot = Pending
  /\ deferreds = <<Pending>>
  /\ root = 1
  /\ initPc = "cli"
  /\ writes = <<>>
  /\ getCalls = {}
  /\ prompt = "none"
  /\ writable \in BOOLEAN
  /\ \/ dir = FALSE /\ file = <<>>
     \/ dir = TRUE /\ file = <<>>
     \/ dir = TRUE /\ \E t \in StartTexts : file = <<t>>
  /\ file0 = file
  /\ dir0 = dir
  /\ earlier = <<>>

\* ------------------------------------------------------------ the CLI capture
\* WsPath preferring root-dir to the positional argument.
WsPathRootDirFirst(a) ==
  IF Truthy(a.rootDir) THEN a.rootDir
  ELSE IF Truthy(a.pos) THEN a.pos
  ELSE JUndef

\* setArguments, up to the test for a relative path: the path chosen, or
\* undefined when neither the positional argument nor root-dir is given.
WsPath(a) ==
  IF Truthy(a.pos) THEN a.pos
  ELSE IF Truthy(a.rootDir) THEN a.rootDir
  ELSE JUndef

\* CliValue without the join with the working directory.
CliValueNoJoin(a) ==
  LET wsPath == WsPath(a) IN
  IF wsPath.k = "undefined" THEN JUndef ELSE wsPath

\* The value setArguments resolves workspaceRoot with.
CliValue(a) ==
  LET wsPath == WsPath(a) IN
  IF wsPath.k = "undefined" THEN JUndef
  ELSE IF ~IsAbsolute(wsPath.s) THEN JStr(PathJoin(Cwd, wsPath.s))
  ELSE wsPath

SetArguments ==
  /\ ~cliRoot.resolved
  /\ cliRoot' = Resolve(cliRoot, CliValue(args))
  /\ UNCHANGED <<args, deferreds, root, initPc, writes, getCalls, prompt, dir, file,
                 writable, file0, dir0, earlier>>

\* ------------------------------------------------------------ initial resolution
\* getRootURIFromCli, once workspaceRoot has resolved with arg.
GetRootURIFromCli(arg) ==
  IF arg.k /= "undefined" THEN JStr(FileUri(arg.s)) ELSE JUndef

\* WorkspaceData.is for a value other than null and undefined.
WorkspaceDataIs(data) == GetProp(data, RecentRootsKey).k /= "undefined"

\* readFromUserHome from the text readFile returned: fault is a thrown
\* TypeError (the promise rejects), warn is the parse-error warning.
ReadFromText(rawContent) ==
  LET content == Trim(rawContent)
      parsed == JsonParse(content) IN
  IF content = <<>> THEN [fault |-> FALSE, warn |-> FALSE, data |-> JUndef]
  ELSE IF ~parsed.ok THEN [fault |-> FALSE, warn |-> TRUE, data |-> JUndef]
  ELSE IF parsed.val.k = "null" THEN [fault |-> TRUE, warn |-> FALSE, data |-> JUndef]
  ELSE IF WorkspaceDataIs(parsed.val)
       THEN [fault |-> FALSE, warn |-> FALSE, data |-> parsed.val]
  ELSE [fault |-> FALSE, warn |-> FALSE, data |-> JUndef]

\* The root init resolves with after the read: fromCli is the falsy root
\* of the CLI, data what readFromUserHome returned.
InitRoot(fromCli, data) ==
  IF Truthy(data) /\ Truthy(GetProp(data, RecentRootsKey))
  THEN Index0(GetProp(data, RecentRootsKey))
  ELSE fromCli

\* this.root.resolve(value), on the Deferred this.root names now.
ResolveRoot(value) == [deferreds EXCEPT ![root] = Resolve(@, value)]

\* InitCli consulting the file whatever the CLI gave.
InitCliFileFirst ==
  /\ initPc = "cli"
  /\ cliRoot.resolved
  /\ initPc' = "pathExists"
  /\ UNCHANGED <<args, cliRoot, deferreds, root, writes, getCalls, prompt, dir, file,
                 writable, file0, dir0, earlier>>

\* init: the continuation of `await this.getRootURIFromCli()`.
InitCli ==
  /\ initPc = "cli"
  /\ cliRoot.resolved
  /\ LET fromCli == GetRootURIFromCli(cliRoot.value) IN
     IF Truthy(fromCli)
     THEN /\ deferreds' = ResolveRoot(fromCli)
          /\ initPc' = "done"
     ELSE /\ initPc' = "pathExists"
          /\ UNCHANGED deferreds
  /\ UNCHANGED <<args, cliRoot, root, writes, getCalls, prompt, dir, file, writable,
                 file0, dir0, earlier>>

\* InitPathExists creating the directory and an empty file when the file
\* is missing.
InitPathExistsCreates ==
  /\ initPc = "pathExists"
  /\ IF file /= <<>>
     THEN /\ initPc' = "readFile"
          /\ UNCHANGED <<deferreds, dir, file>>
     ELSE /\ deferreds' = ResolveRoot(InitRoot(GetRootURIFromCli(cliRoot.value), JUndef))
          /\ initPc' = "done"
          /\ dir' = TRUE
          /\ file' = << <<>> >>
  /\ UNCHANGED <<args, cliRoot, root, writes, getCalls, prompt, writable, file0, dir0,
                 earlier>>

\* readFromUserHome: the continuation of `await fs.pathExists(file)`.
InitPathExists ==
  /\ initPc = "pathExists"
  /\ IF file /= <<>>
     THEN /\ initPc' = "readFile"
          /\ UNCHANGED deferreds
     ELSE /\ deferreds' = ResolveRoot(InitRoot(GetRootURIFromCli(cliRoot.value), JUndef))
          /\ initPc' = "done"
  /\ UNCHANGED <<args, cliRoot, root, writes, getCalls, prompt, dir, file, writable,
                 file0, dir0, earlier>>

\* InitReadFile waiting for the answer to its warning before it returns.
InitReadFileAwaitsPrompt ==
  /\ initPc = "readFile"
  /\ IF file = <<>> \/ ReadFromText(file[1]).fault
     THEN /\ initPc' = "rejected"
          /\ UNCHANGED <<deferreds, prompt>>
     ELSE LET r == ReadFromText(file[1]) IN
          IF r.warn
          THEN /\ prompt' = "open"
               /\ initPc' = "prompt"
               /\ UNCHANGED deferreds
          ELSE /\ deferreds' = ResolveRoot(InitRoot(GetRootURIFromCli(cliRoot.value), r.data))
               /\ initPc' = "done"
               /\ UNCHANGED prompt
  /\ UNCHANGED <<args, cliRoot, root, writes, getCalls, dir, file, writable, file0,
                 dir0, earlier>>

\* readFromUserHome: the continuation of `await fs.readFile(file)`, and the
\* rest of init. readFile rejects when the file has gone.
InitReadFile ==
  /\ initPc = "readFile"
  /\ IF file = <<>> \/ ReadFromText(file[1]).fault
     THEN /\ initPc' = "rejected"
          /\ UNCHANGED <<deferreds, prompt>>
     ELSE LET r == ReadFromText(file[1]) IN
          /\ prompt' = IF r.warn THEN "open" ELSE prompt
          /\ deferreds' = ResolveRoot(InitRoot(GetRootURIFromCli(cliRoot.value), r.data))
          /\ initPc' = "done"
  /\ UNCHANGED <<args, cliRoot, root, writes, getCalls, dir, file, writable, file0,
                 dir0, earlier>>

\* ------------------------------------------------------------ the warning
\* PromptFix with the branches confused: "Fix" removes the file.
PromptFixRemoves ==
  /\ prompt = "open"
  /\ prompt' = "fix"
  /\ file' = <<>>
  /\ UNCHANGED <<args, cliRoot, deferreds, root, initPc, writes, getCalls, dir,
                 writable, file0, dir0, earlier>>

\* The user picks "Fix": messageService.info only.
PromptFix ==
  /\ prompt = "open"
  /\ prompt' = "fix"
  /\ UNCHANGED <<args, cliRoot, deferreds, root, initPc, writes, getCalls, dir, file,
                 writable, file0, dir0, earlier>>

\* The user picks "Delete": fs.remove(file) is started and not awaited.
PromptDelete ==
  /\ prompt = "open"
  /\ prompt' = "delete"
  /\ UNCHANGED <<args, cliRoot, deferreds, root, initPc, writes, getCalls, dir, file,
                 writable, file0, dir0, earlier>>

\* The user closes the warning: selected is undefined.
PromptDismiss ==
  /\ prompt = "open"
  /\ prompt' = "dismissed"
  /\ UNCHANGED <<args, cliRoot, deferreds, root, initPc, writes, getCalls, dir, file,
                 writable, file0, dir0, earlier>>

\* fs.remove(file) completes: the file is gone if the file system allows.
RemoveDone ==
  /\ prompt = "delete"
  /\ prompt' = "removed"
  /\ file' = IF writable THEN <<>> ELSE file
  /\ UNCHANGED <<args, cliRoot, deferreds, root, initPc, writes, getCalls, dir,
                 writable, file0, dir0, earlier>>

\* ------------------------------------------------------------ getRoot, setRoot
\* getRoot: the caller holds the promise of the Deferred this.root names;
\* sets is the number of setRoot calls made before it.
GetRoot ==
  /\ Cardinality(getCalls) < MaxGetRoot
  /\ getCalls' = getCalls \cup {[ref |-> root, sets |-> Len(writes)]}
  /\ UNCHANGED <<args, cliRoot, deferreds, root, initPc, writes, prompt, dir, file,
                 writable, file0, dir0, earlier>>

\* SetRoot resolving the Deferred in place instead of replacing it.
SetRootInPlace(uri) ==
  /\ Len(writes) < MaxSetRoot
  /\ deferreds' = [deferreds EXCEPT ![root] = Resolve(@, JStr(uri))]
  /\ writes' = Append(writes, [uri |-> uri, pc |-> "pathExists",
                               returned |-> "fulfilled"])
  /\ UNCHANGED <<args, cliRoot, root, initPc, getCalls, prompt, dir, file, writable,
                 file0, dir0, earlier>>

\* SetRoot leaving the new Deferred unsettled.
SetRootPending(uri) ==
  /\ Len(writes) < MaxSetRoot
  /\ deferreds' = Append(deferreds, Pending)
  /\ root' = Len(deferreds) + 1
  /\ writes' = Append(writes, [uri |-> uri, pc |-> "pathExists",
                               returned |-> "fulfilled"])
  /\ UNCHANGED <<args, cliRoot, initPc, getCalls, prompt, dir, file, writable, file0,
                 dir0, earlier>>

\* setRoot up to the first await of writeToUserHome. The call of
\* writeToUserHome is not awaited: the promise setRoot returns is fulfilled
\* when that call has returned its own promise.
SetRoot(uri) ==
  /\ Len(writes) < MaxSetRoot
  /\ deferreds' = Append(deferreds, Resolve(Pending, JStr(uri)))
  /\ root' = Len(deferreds) + 1
  /\ writes' = Append(writes, [uri |-> uri, pc |-> "pathExists",
                               returned |-> "fulfilled"])
  /\ UNCHANGED <<args, cliRoot, initPc, getCalls, prompt, dir, file, writable, file0,
                 dir0, earlier>>

\* ------------------------------------------------------------ writeToUserHome
\* WritePathExists never creating the directory.
WritePathExistsNoMkdirs(w) ==
  /\ writes[w].pc = "pathExists"
  /\ writes' = [writes EXCEPT ![w].pc = "writeJson"]
  /\ UNCHANGED <<args, cliRoot, deferreds, root, initPc, getCalls, prompt, dir, file,
                 writable, file0, dir0, earlier>>

\* The continuation of `await fs.pathExists(file)`.
WritePathExists(w) ==
  /\ writes[w].pc = "pathExists"
  /\ writes' = [writes EXCEPT ![w].pc = IF file /= <<>> THEN "writeJson" ELSE "mkdirs"]
  /\ UNCHANGED <<args, cliRoot, deferreds, root, initPc, getCalls, prompt, dir, file,
                 writable, file0, dir0, earlier>>

\* WriteMkdirs with its rejection passed on to the promise of setRoot.
WriteMkdirsRejectsSetRoot(w) ==
  /\ writes[w].pc = "mkdirs"
  /\ IF dir \/ writable
     THEN /\ dir' = TRUE
          /\ writes' = [writes EXCEPT ![w].pc = "writeJson"]
     ELSE /\ writes' = [writes EXCEPT ![w].pc = "failed", ![w].returned = "rejected"]
          /\ UNCHANGED dir
  /\ UNCHANGED <<args, cliRoot, deferreds, root, initPc, getCalls, prompt, file,
                 writable, file0, dir0, earlier>>

\* fs.mkdirs of the parent directory: creates what is missing; rejects when
\* it has to create and may not.
WriteMkdirs(w) ==
  /\ writes[w].pc = "mkdirs"
  /\ IF dir \/ writable
     THEN /\ dir' = TRUE
          /\ writes' = [writes EXCEPT ![w].pc = "writeJson"]
     ELSE /\ writes' = [writes EXCEPT ![w].pc = "failed"]
          /\ UNCHANGED dir
  /\ UNCHANGED <<args, cliRoot, deferreds, root, initPc, getCalls, prompt, file,
                 writable, file0, dir0, earlier>>

\* The text writeToUserHome writes for setRoot(uri).
WrittenText(uri) == JsonText(WorkspaceData(<<uri>>))

\* WriteJson appending to the text the file holds.
WriteJsonAppend(w) ==
  /\ writes[w].pc = "writeJson"
  /\ IF dir /\ writable
     THEN /\ file' = <<(IF file = <<>> THEN <<>> ELSE file[1])
                        \o JsonText(WorkspaceData(<<writes[w].uri>>))>>
          /\ writes' = [writes EXCEPT ![w].pc = "done"]
     ELSE /\ writes' = [writes EXCEPT ![w].pc = "failed"]
          /\ UNCHANGED file
  /\ UNCHANGED <<args, cliRoot, deferreds, root, initPc, getCalls, prompt, dir,
                 writable, file0, dir0, earlier>>

\* fs.writeJson(file, data): replaces the whole text; rejects when the
\* directory is missing or the file may not be written.
WriteJson(w) ==
  /\ writes[w].pc = "writeJson"
  /\ IF dir /\ writable
     THEN /\ file' = <<WrittenText(writes[w].uri)>>
          /\ writes' = [writes EXCEPT ![w].pc = "done"]
     ELSE /\ writes' = [writes EXCEPT ![w].pc = "failed"]
          /\ UNCHANGED file
  /\ UNCHANGED <<args, cliRoot, deferreds, root, initPc, getCalls, prompt, dir,
                 writable, file0, dir0, earlier>>

Next ==
  \/ SetArguments
  \/ InitCli
  \/ InitPathExists
  \/ InitReadFile
  \/ PromptFix
  \/ PromptDelete
  \/ PromptDismiss
  \/ RemoveDone
  \/ GetRoot
  \/ \E uri \in Uris : SetRoot(uri)
  \/ \E w \in 1..Len(writes) : WritePathExists(w)
  \/ \E w \in 1..Len(writes) : WriteMkdirs(w)
  \/ \E w \in 1..Len(writes) : WriteJson(w)

Spec == Init /\ [][Next]_vars

\* ------------------------------------------------------------ the command lines
UpPath == <<"..", Sep, "q">>
DotPath == <<".", Sep, "r", Sep>>
\* What yargs may hand over for one of the two arguments: nothing, the
\* empty string, an absolute path or a relative one.
CliArgValues ==
  {JUndef, JStr(<<>>)} \cup {JStr(p) : p \in {AbsPath, OptPath, RelPath, UpPath, DotPath}}
CliArgsSet == [pos : CliArgValues, rootDir : CliArgValues]
\* A well-formed file for the resolution to fall through to.
CliFileText == JsonText(WorkspaceData(<<UriY, PathX>>))

\* A process started with any of the command lines, up to the resolution
\* of its root; nobody calls setRoot.
CliInit ==
  /\ args \in CliArgsSet
  /\ cliRoot = Pending
  /\ deferreds = <<Pending>>
  /\ root = 1
  /\ initPc = "cli"
  /\ writes = <<>>
  /\ getCalls = {}
  /\ prompt = "none"
  /\ writable = TRUE
  /\ dir = TRUE
  /\ file \in {<<>>, <<CliFileText>>}
  /\ file0 = file
  /\ dir0 = dir
  /\ earlier = <<>>

CliNext ==
  \/ SetArguments
  \/ InitCli
  \/ InitPathExists
  \/ InitReadFile
  \/ GetRoot

CliSpec == CliInit /\ [][CliNext]_vars

\* ------------------------------------------------------------ a second process
\* What a process leaves to its successor besides the file: the arguments
\* of its setRoot calls, in order, and whether every write they started
\* had completed when it exited.
Legacy ==
  [uris |-> [w \in 1..Len(writes) |-> writes[w].uri],
   completed |-> \A w \in 1..Len(writes) : writes[w].pc = "done"]

\* The process exits, whatever it was doing, and a new one is started with
\* no path on its command line: fresh Deferreds, init from the start, the
\* file system as the old process left it.
Restart ==
  /\ earlier = <<>>
  /\ earlier' = <<Legacy>>
  /\ args' = [pos |-> JUndef, rootDir |-> JUndef]
  /\ cliRoot' = Pending
  /\ deferreds' = <<Pending>>
  /\ root' = 1
  /\ initPc' = "cli"
  /\ writes' = <<>>
  /\ getCalls' = {}
  /\ prompt' = "none"
  /\ file0' = file
  /\ dir0' = dir
  /\ UNCHANGED <<dir, file, writable>>

\* The texts the first of the two processes may find.
RestartTexts ==
  {<<Punct("{")>>, JsonText(WorkspaceData(<<UriY, PathX>>))}

RestartInit ==
  /\ args \in {[pos |-> JUndef, rootDir |-> JUndef], [pos |-> JStr(AbsPath), rootDir |-> JUndef]}
  /\ cliRoot = Pending
  /\ deferreds = <<Pending>>
  /\ root = 1
  /\ initPc = "cli"
  /\ writes = <<>>
  /\ getCalls = {}
  /\ prompt = "none"
  /\ writable = TRUE
  /\ \/ dir = FALSE /\ file = <<>>
     \/ dir = TRUE /\ \E t \in RestartTexts : file = <<t>>
  /\ file0 = file
  /\ dir0 = dir
  /\ earlier = <<>>

RestartNext ==
  \/ Next
  \/ Restart

RestartSpec == RestartInit /\ [][RestartNext]_vars

\* ------------------------------------------------------------ vocabulary of the properties
\* Neither the positional argument nor root-dir is given.
NoCli == WsPath(args).k = "undefined"
\* The positional argument is an absolute path.
AbsPositional == Truthy(args.pos) /\ IsAbsolute(args.pos.s)
\* What a getRoot() call made now resolves to, once it has.
RootNow == deferreds[root]
NoSetRoot == writes = <<>>
StartsWith(texts) == file0 /= <<>> /\ file0[1] \in texts
StartsMalformed ==
  /\ file0 /= <<>>
  /\ Trim(file0[1]) /= <<>>
  /\ ~JsonParse(Trim(file0[1])).ok
\* The file the process started with holds white space only, or nothing.
StartsBlank == file0 /= <<>> /\ \A i \in 1..Len(file0[1]) : file0[1][i].t = "w"
\* What reading the file and parsing it yields.
FileHolds(data) ==
  /\ file /= <<>>
  /\ JsonParse(Trim(file[1])) = [ok |-> TRUE, val |-> data]

\* ------------------------------------------------------------ C1
\* C1: with an absolute positional path P and no setRoot call, initial
\* resolution never turns to the file and never faults, and whenever the
\* root is resolved it is FileUri.create(P).toString(), whatever the file
\* holds.
CliPrecedence ==
  (AbsPositional /\ NoSetRoot) =>
    /\ initPc \in {"cli", "done"}
    /\ initPc = "done" => RootNow.resolved
    /\ RootNow.resolved => RootNow.value = JStr(FileUri(args.pos.s))

CliPrecedenceWitness ==
  /\ AbsPositional /\ NoSetRoot
  /\ initPc = "done"
  /\ StartsWith({JsonText(WorkspaceData(<<PathX, UriY>>))})
  /\ RootNow = Resolved(JStr(FileUri(AbsPath)))

\* ------------------------------------------------------------ C2
\* C2: once initial resolution has completed, every promise getRoot has
\* handed out is resolved, those handed out before completion included.
GetRootCallsResolve ==
  initPc = "done" => \A c \in getCalls : deferreds[c.ref].resolved

\* ------------------------------------------------------------ C3
\* C3: after setRoot(U1) then setRoot(U2), once both writes have completed
\* (and the file was not removed through the warning) the file is the text
\* of {recentRoots: [U2]}.
LastSetRootOnDisk ==
  (/\ Len(writes) = 2
   /\ writes[1].pc = "done" /\ writes[2].pc = "done"
   /\ prompt \notin {"delete", "removed"})
    => FileHolds(WorkspaceData(<<writes[2].uri>>))

\* ------------------------------------------------------------ C4
\* C4: a getRoot() call made after a setRoot(U) and before the next one
\* holds a promise already resolved to U, whatever the state of the write
\* and of initial resolution.
GetRootAfterSetRoot ==
  \A c \in getCalls :
    c.sets > 0 => deferreds[c.ref] = Resolved(JStr(writes[c.sets].uri))

GetRootAfterSetRootWitness ==
  \E c \in getCalls :
    /\ c.sets = 2
    /\ writes[1].uri /= writes[2].uri
    /\ writes[2].pc = "pathExists"
    /\ initPc /= "done"
    /\ deferreds[c.ref] = Resolved(JStr(writes[2].uri))

\* ------------------------------------------------------------ C5
\* C5: the step that completes the write of setRoot(U) leaves exactly the
\* text written for {recentRoots: [U]}, whatever the file held before, and
\* a file with that text reads back as exactly {recentRoots: [U]}.
WriteRoundTrip ==
  /\ [](\A u \in Uris :
          file = <<WrittenText(u)>> => FileHolds(WorkspaceData(<<u>>)))
  /\ [][\A w \in 1..Len(writes) :
          (writes[w].pc /= "done" /\ writes'[w].pc = "done")
            => file' = <<WrittenText(writes[w].uri)>>]_vars

WriteRoundTripWitness ==
  /\ Len(writes) = 1
  /\ writes[1].pc = "done"
  /\ StartsWith({JsonText(WorkspaceData(<<PathX, UriY>>))})
  /\ FileHolds(WorkspaceData(<<writes[1].uri>>))

\* ------------------------------------------------------------ C6
\* C6 as stated: with no CLI argument, no setRoot call and a file holding
\* {recentRoots: [X, ...]} for an absolute path X, the root resolves to the
\* canonical-root form of X, its file URI.
FirstRootCanonical ==
  (NoCli /\ NoSetRoot /\ RootNow.resolved) =>
    \A l \in RootLists :
      (/\ Len(l) >= 1 /\ IsAbsolute(l[1])
       /\ StartsWith({JsonText(WorkspaceData(l))}))
        => RootNow.value = JStr(FileUri(l[1]))

\* C6 as amended: with no CLI argument, no setRoot call and a file holding
\* {recentRoots: [X, ...]}, initial resolution completes without a fault or
\* a warning, and the root resolves to X exactly as the file holds it: the
\* first element, unconverted.
FirstRootVerbatim ==
  (NoCli /\ NoSetRoot) =>
    \A l \in RootLists :
      (Len(l) >= 1 /\ StartsWith({JsonText(WorkspaceData(l))}))
        => /\ initPc /= "rejected"
           /\ prompt = "none"
           /\ initPc = "done" => RootNow.resolved
           /\ RootNow.resolved => RootNow.value = JStr(l[1])

FirstRootVerbatimWitness ==
  /\ NoCli /\ NoSetRoot
  /\ StartsWith({JsonText(WorkspaceData(<<PathX, UriY>>))})
  /\ initPc = "done"
  /\ RootNow = Resolved(JStr(PathX))

\* ------------------------------------------------------------ C7
\* C7: with no CLI argument, no setRoot call and a file that parses as JSON
\* without a recentRoots field, initial resolution does not fault and the
\* root resolves to undefined.
NoFieldIsNoData ==
  (/\ NoCli /\ NoSetRoot
   /\ StartsWith({JsonText(v) : v \in NoFieldValues}))
    => /\ initPc /= "rejected"
       /\ initPc = "done" => RootNow = Resolved(JUndef)

\* ------------------------------------------------------------ C8
\* C8: with no CLI argument and a file that fails to parse, initial
\* resolution does not fault, the root resolves to undefined while no
\* setRoot is called, and the file is the one the process started with
\* until the user has picked "Delete" or a setRoot write has completed.
MalformedIgnored ==
  (NoCli /\ StartsMalformed) =>
    /\ initPc /= "rejected"
    /\ (NoSetRoot /\ initPc = "done") => RootNow = Resolved(JUndef)
    /\ (/\ prompt \notin {"delete", "removed"}
        /\ \A w \in 1..Len(writes) : writes[w].pc /= "done")
         => file = file0

MalformedIgnoredWitness ==
  /\ NoCli /\ StartsMalformed /\ NoSetRoot
  /\ initPc = "done"
  /\ prompt = "fix"
  /\ file = file0
  /\ RootNow = Resolved(JUndef)

\* ------------------------------------------------------------ C9
\* C9: with no CLI argument, no setRoot call and a file that is missing or
\* blank after trimming, no warning is raised, initial resolution does not
\* fault and the root resolves to undefined.
MissingOrBlankIsNoData ==
  (NoCli /\ NoSetRoot /\ (file0 = <<>> \/ StartsBlank)) =>
    /\ prompt = "none"
    /\ initPc /= "rejected"
    /\ initPc = "done" => RootNow = Resolved(JUndef)

MissingOrBlankIsNoDataWitness ==
  /\ NoCli /\ NoSetRoot
  /\ StartsWith({<<Space, Newline>>})
  /\ initPc = "done"
  /\ prompt = "none"
  /\ RootNow = Resolved(JUndef)

\* ------------------------------------------------------------ C10
\* C10: writeJson is attempted only once the directory exists; where the
\* file system allows writing no write fails; and a process that started
\* without the directory and made one setRoot(U) has, once the write is
\* done, the directory and a file that reads back as {recentRoots: [U]}.
DirectoryAutoCreation ==
  /\ \A w \in 1..Len(writes) : writes[w].pc = "writeJson" => dir
  /\ writable => \A w \in 1..Len(writes) : writes[w].pc /= "failed"
  /\ (~dir0 /\ Len(writes) = 1 /\ writes[1].pc = "done")
       => dir /\ FileHolds(WorkspaceData(<<writes[1].uri>>))

DirectoryAutoCreationWitness ==
  /\ ~dir0
  /\ Len(writes) = 1
  /\ writes[1].pc = "done"
  /\ dir
  /\ FileHolds(WorkspaceData(<<writes[1].uri>>))

\* ------------------------------------------------------------ C11
\* An argument of the command line that names a path.
Given(v) == v.k = "str" /\ v.s /= <<>>
\* The path setArguments captures for a path p it was given.
Captured(p) == IF IsAbsolute(p) THEN p ELSE PathJoin(Cwd, p)

\* C11: once setArguments has run with a path on the command line (the
\* positional argument or root-dir), the captured value is an absolute
\* path: the path itself when it is absolute, path.join(process.cwd(), R)
\* when it is a relative path R; and with no setRoot call the root, once
\* init is done, is the file URI of the captured path.
RelativeCliJoined ==
  LET chosen == WsPath(args) IN
  (cliRoot.resolved /\ chosen.k = "str") =>
    /\ cliRoot.value.k = "str"
    /\ IsAbsolute(cliRoot.value.s)
    /\ IsAbsolute(chosen.s) => cliRoot.value = chosen
    /\ ~IsAbsolute(chosen.s) => cliRoot.value = JStr(PathJoin(Cwd, chosen.s))
    /\ initPc = "done" => RootNow = Resolved(JStr(FileUri(cliRoot.value.s)))

RelativeCliJoinedWitness ==
  /\ args.pos = JUndef
  /\ args.rootDir = JStr(UpPath)
  /\ cliRoot = Resolved(JStr(<<Sep, "q">>))
  /\ initPc = "done"
  /\ RootNow = Resolved(JStr(<<"file://", Sep, "q">>))
  /\ file /= <<>>

\* ------------------------------------------------------------ C12
\* C12: setArguments captures the positional path when one is given and
\* root-dir only when no positional path is given; with neither it
\* resolves with undefined, and init then takes the root from the file:
\* it never rejects, and ends with the first stored root, or with
\* undefined when there is no file.
CliSelection ==
  /\ cliRoot.resolved =>
        /\ Given(args.pos) => cliRoot.value = JStr(Captured(args.pos.s))
        /\ (~Given(args.pos) /\ Given(args.rootDir))
             => cliRoot.value = JStr(Captured(args.rootDir.s))
        /\ (~Given(args.pos) /\ ~Given(args.rootDir)) => cliRoot.value = JUndef
  /\ initPc /= "rejected"
  /\ (~Given(args.pos) /\ ~Given(args.rootDir) /\ initPc = "done")
       => RootNow = Resolved(IF file = <<>> THEN JUndef ELSE JStr(UriY))

CliSelectionWitness ==
  /\ Given(args.pos)
  /\ Given(args.rootDir)
  /\ args.pos /= args.rootDir
  /\ cliRoot = Resolved(JStr(Captured(args.pos.s)))
  /\ initPc = "done"

\* ------------------------------------------------------------ C13
\* C13: once the Deferred getRoot() hands out is resolved, the one it
\* hands out after any further step (of init, of setRoot, of a write, of
\* the warning) is resolved too: no sequence of setRoot calls makes
\* getRoot() give out a pending root again.
ResolvedIsTerminal == [][RootNow.resolved => RootNow'.resolved]_vars

ResolvedIsTerminalWitness ==
  /\ initPc = "done"
  /\ deferreds[1].resolved
  /\ Len(writes) = MaxSetRoot
  /\ root = MaxSetRoot + 1
  /\ RootNow.resolved

\* ------------------------------------------------------------ C14
\* C14: with no path on the command line, no setRoot call and a file
\* that does not parse, the warning is raised by the step that completes
\* init with the empty root: while the warning is unanswered init is
\* already done, and the root is resolved with undefined whatever the
\* answer (Fix, Delete, dismissed) and whether or not one is given.
ParseFailureNotAwaited ==
  (NoCli /\ NoSetRoot /\ StartsMalformed) =>
    /\ initPc /= "rejected"
    /\ (initPc = "done") = (prompt /= "none")
    /\ prompt /= "none" => RootNow = Resolved(JUndef)
    /\ \A c \in getCalls : prompt /= "none" => deferreds[c.ref] = Resolved(JUndef)

ParseFailureNotAwaitedWitness ==
  /\ NoCli /\ NoSetRoot /\ StartsMalformed
  /\ prompt = "open"
  /\ initPc = "done"
  /\ getCalls /= {}
  /\ \A c \in getCalls : deferreds[c.ref] = Resolved(JUndef)

\* ------------------------------------------------------------ C15
\* C15: when the write started by setRoot(U) has failed, in fs.mkdirs or
\* in fs.writeJson, the promise setRoot(U) returned is fulfilled all the
\* same, every getRoot() promise handed out since that call and before
\* the next setRoot is resolved with U, and if no setRoot followed, the
\* root is U still.
WriteFailureNotSurfaced ==
  \A w \in 1..Len(writes) :
    writes[w].pc = "failed" =>
      /\ writes[w].returned = "fulfilled"
      /\ w = Len(writes) => RootNow = Resolved(JStr(writes[w].uri))
      /\ \A c \in getCalls :
           c.sets = w => deferreds[c.ref] = Resolved(JStr(writes[w].uri))

WriteFailureNotSurfacedWitness ==
  /\ Len(writes) = 1
  /\ writes[1].pc = "failed"
  /\ ~dir
  /\ initPc = "done"
  /\ getCalls = {[ref |-> root, sets |-> 1]}
  /\ RootNow = Resolved(JStr(writes[1].uri))

\* ------------------------------------------------------------ C16
\* C16: once setRoot has been called the root is the argument of the last
\* call, at every step init takes afterwards and after init is done:
\* init's own resolve, arriving late with the root of the command line
\* or of the file, does not replace it.
SetRootBeatsInit ==
  writes /= <<>> => RootNow = Resolved(JStr(writes[Len(writes)].uri))

SetRootBeatsInitWitness ==
  /\ writes /= <<>>
  /\ ~deferreds[1].resolved
  /\ initPc = "done"
  /\ file0 = <<JsonText(WorkspaceData(<<UriY, PathX>>))>>
  /\ NoCli
  /\ prompt = "none"
  /\ RootNow = Resolved(JStr(writes[Len(writes)].uri))

\* ------------------------------------------------------------ C17
\* C17: after the write of the only setRoot(U) call has completed, the
\* file holds {recentRoots: [U]} in every later state, also when the user
\* answers "Delete" to the warning raised for the text the file held
\* before.
DeleteSparesNewerRecord ==
  (Len(writes) = 1 /\ writes[1].pc = "done")
    => FileHolds(WorkspaceData(<<writes[1].uri>>))

\* ------------------------------------------------------------ C18
\* C18: in a process started with no path on its command line after a
\* process that called setRoot and whose writes had all completed, init,
\* when nobody has called setRoot in the new process, ends with the root
\* resolved to the argument of the last setRoot call of the old process.
RestartResolvesLastSetRoot ==
  (/\ earlier /= <<>>
   /\ earlier[1].uris /= <<>>
   /\ earlier[1].completed
   /\ NoSetRoot
   /\ initPc \in {"done", "rejected"})
    => RootNow = Resolved(JStr(earlier[1].uris[Len(earlier[1].uris)]))

\* ------------------------------------------------------------ C19
\* C19: no step of setArguments, init or getRoot changes the file or the
\* directory; a step that changes the file is the writeJson of a setRoot
\* call putting its text there, or the fs.remove of a "Delete" answer
\* taking the file away; a step that changes the directory is the mkdirs
\* of a setRoot call creating it. So with no setRoot call and no "Delete"
\* the file and the directory are as the process found them.
ReadingNeverWrites ==
  /\ []((NoSetRoot /\ prompt \notin {"delete", "removed"})
          => (file = file0 /\ dir = dir0))
  /\ [][/\ (cliRoot' /= cliRoot \/ initPc' /= initPc \/ getCalls' /= getCalls)
           => (file' = file /\ dir' = dir)
        /\ (file' /= file)
           => (\/ \E w \in 1..Len(writes) :
                    /\ writes[w].pc = "writeJson"
                    /\ writes'[w].pc = "done"
                    /\ file' = <<WrittenText(writes[w].uri)>>
               \/ (prompt = "delete" /\ prompt' = "removed" /\ file' = <<>>))
        /\ (dir' /= dir)
           => (/\ dir'
               /\ \E w \in 1..Len(writes) :
                    writes[w].pc = "mkdirs" /\ writes'[w].pc = "writeJson")]_vars

ReadingNeverWritesWitness ==
  /\ NoCli
  /\ NoSetRoot
  /\ initPc = "done"
  /\ getCalls /= {}
  /\ ~dir0 /\ ~dir
  /\ file0 = <<>> /\ file = <<>>
  /\ RootNow = Resolved(JUndef)

====
